---- MODULE Spec2Model ----
(***************************************************************************)
(* Model of mpx_gen.c: option parsing in main(), the startup and run loop  *)
(* of generate_mpx(), and terminate() reached from main() or from a signal *)
(* handler installed by generate_mpx().                                    *)
(***************************************************************************)
EXTENDS Integers, Sequences, FiniteSets, TLC

\* ---------------------------------------------------------------- bounds
\* number of --af options modelled on one command line
MaxAf == 2
\* largest --af argument, in tenths of MHz, the conversion is tabulated for
MaxTenths == 1200
\* loop iterations counted before the counters saturate
MaxIter == 2
\* samples of resample_out whose values are tracked
MaxFrames == 2
\* number of --af options on a long command line
MaxAfLong == 100

\* the converted samples tried, in tenths, and the --mpx arguments tried
SampleTenths == {0, 1, 33, -50, -99, 100}
GainInputs == {0, 10, 50, 100, 150, -50}

\* ------------------------------------------------------ program constants
\* int alternative_freq[100]
AF_LEN == 100
\* the offset subtracted from 10*MHz in case 'A'
AF_BASE == 875
\* the range test of case 'A'
AF_MIN == 1
AF_MAX == 204
\* the sigaction loop runs i = 0 .. 24
SIG_LIMIT == 25
\* fatal() ends with exit(1)
FATAL_CODE == 1
\* a NULL pointer, and the one non-NULL handle an open/new call returns
NULL == 0
HANDLE == 1
\* #define DATA_SIZE, #define OUTPUT_DATA_SIZE
DATA_SIZE == 4096
OUTPUT_DATA_SIZE == 8192
\* src_data.src_ratio = 192000. / 228000
SINK_RATE == 192000
SOURCE_RATE == 228000
\* float mpx = 10
MPX_DEFAULT == 10

\* the --af arguments tried, in tenths of MHz ("87.6" is 876): the two edges
\* of the band with their neighbours, and a power of two far below
AfInputs == {512, 875, 876, 1079, 1080}

\* the --af arguments of a long command line: one inside the band, one above
AfLongInputs == {t \in AfInputs : t = 876 \/ t = 1080}

\* sigaction() fails for signal 0, SIGKILL (9) and SIGSTOP (19); the handler
\* is installed for every other i below SIG_LIMIT
HandledSignals == {i \in 0..(SIG_LIMIT - 1) : i # 0 /\ i # 9 /\ i # 19}
\* the signals delivered in the model: SIGINT (2) and SIGTERM (15)
SigInputs == {s \in HandledSignals : s = 2 \/ s = 15}

Resources == {"source", "ctl", "sink", "conv"}

\* station texts, written in two halves: the one given at startup and the
\* one a control channel command sets
PsStart == <<"old", "old">>
PsNew == <<"new", "new">>
PsTexts == {PsStart, PsNew}

\* the steps of one loop iteration
StepOrder == <<"poll", "get", "convert", "format", "write">>

\* the arrays of generate_mpx and the number of elements of each
Buffers == {"mpx_data", "rds_data", "resample_out", "dev_out"}
BufLen(b) == IF b = "dev_out" THEN OUTPUT_DATA_SIZE ELSE DATA_SIZE

\* ------------------------------------------------- (int)(10*atof(optarg))
\* IEEE-754 binary64 arithmetic on a decimal argument with one fractional
\* digit, t tenths.  The quantities are kept relative to the unit in the last
\* place so that no intermediate value needs more than 32 bits.
RECURSIVE Pow2(_)
Pow2(n) == IF n <= 0 THEN 1 ELSE 2 * Pow2(n - 1)

RECURSIVE PowMod2(_, _)
PowMod2(n, m) == IF n <= 0 THEN 1 % m ELSE (2 * PowMod2(n - 1, m)) % m

\* 2^k <= t/10
AtLeastPow2(t, k) == IF k >= 0 THEN 10 * Pow2(k) <= t ELSE 10 <= t * Pow2(-k)

\* binary exponent of t/10: 2^k <= t/10 < 2^(k+1)
DecExp(t) == CHOOSE k \in (-4)..11 : AtLeastPow2(t, k) /\ ~AtLeastPow2(t, k + 1)

\* binary exponent of the integer t: 2^k <= t < 2^(k+1)
IntExp(t) == CHOOSE k \in 0..14 : Pow2(k) <= t /\ t < Pow2(k + 1)

\* round a/b (b > 0) to the nearest integer, ties to the even one
RoundHalfEven(a, b) ==
    LET f == a \div b
        r == a - f * b
    IN  IF 2 * r < b THEN f
        ELSE IF 2 * r > b THEN f + 1
        ELSE IF f % 2 = 0 THEN f ELSE f + 1

\* atof(): t/10 rounded to 53 significant bits.  The result is
\* t/10 + AtofErr10(t)/10 units in the last place of t/10.
AtofErr10(t) ==
    LET p     == 52 - DecExp(t)
        r     == ((t % 10) * PowMod2(p, 10)) % 10
        floor == (((t % 20) * PowMod2(p, 20)) % 20) \div 10
    IN  IF r < 5 THEN 0 - r
        ELSE IF r > 5 THEN 10 - r
        ELSE IF floor % 2 = 0 THEN -5 ELSE 5

\* 10 * atof(): the exact product is t + AtofErr10(t) ulps of t/10; it is
\* rounded to 53 significant bits.  The result is t + MulUlps(t) ulps of the
\* product.
MulUlps(t) ==
    LET e  == AtofErr10(t)
        k2 == IF e < 0 /\ Pow2(IntExp(t)) = t THEN IntExp(t) - 1 ELSE IntExp(t)
    IN  RoundHalfEven(e, Pow2(k2 - DecExp(t)))

\* (int): truncation toward zero of a positive value one ulp around t
TimesTenTrunc(t) == IF t = 0 THEN 0 ELSE IF MulUlps(t) < 0 THEN t - 1 ELSE t

\* alternative_freq[af_size] = (int)(10*atof(optarg))-875
AfCode(t) == TimesTenTrunc(t) - AF_BASE

\* the range test with its lower edge off by one
AfOutOfRangeFromZero(c) == c < AF_MIN - 1 \/ c > AF_MAX

\* the test that guards fatal() in case 'A'
AfOutOfRange(c) == c < AF_MIN \/ c > AF_MAX

\* ------------------------------------------------- float in postprocess
\* IEEE-754 binary32 values as records: sign s, significand m and exponent
\* e stand for (-1)^s * m * 2^e, with 2^23 <= m < 2^24 or m = 0.  Every
\* operation rounds to nearest, ties to even.  The inputs are of moderate
\* size, so no operation overflows or leaves the normal range.
F32Zero(s) == [s |-> s, m |-> 0, e |-> 0]

\* shift a significand below 2^24 up into [2^23, 2^24)
RECURSIVE F32Norm(_, _, _)
F32Norm(s, m, e) ==
    IF m = 0 THEN F32Zero(s)
    ELSE IF m >= Pow2(23) THEN [s |-> s, m |-> m, e |-> e]
    ELSE F32Norm(s, 2 * m, e - 1)

\* shift n * 2^e down to 24 bits; half is the last bit shifted out, sticky
\* tells whether anything below it was not zero
RECURSIVE F32Round(_, _, _, _, _)
F32Round(s, n, e, half, sticky) ==
    IF n >= Pow2(24)
    THEN F32Round(s, n \div 2, e + 1, (n % 2) = 1, sticky \/ half)
    ELSE LET up == half /\ (sticky \/ (n % 2) = 1)
             m  == IF up THEN n + 1 ELSE n
         IN  IF m = Pow2(24) THEN [s |-> s, m |-> Pow2(23), e |-> e + 1]
             ELSE [s |-> s, m |-> m, e |-> e]

\* the conversion of an int to float, |n| < 2^24
F32FromInt(n) == IF n < 0 THEN F32Norm(1, 0 - n, 0) ELSE F32Norm(0, n, 0)

\* k more bits of the quotient of a division by d, rem the remainder so far
RECURSIVE LongDiv(_, _, _, _)
LongDiv(rem, q, d, k) ==
    IF k = 0 THEN <<q, rem>>
    ELSE IF 2 * rem >= d THEN LongDiv(2 * rem - d, 2 * q + 1, d, k - 1)
    ELSE LongDiv(2 * rem, 2 * q, d, k - 1)

\* a / b, b not zero
F32Div(a, b) ==
    LET s  == (a.s + b.s) % 2
        qr == LongDiv(a.m % b.m, a.m \div b.m, b.m, 25)
    IN  IF a.m = 0 THEN F32Zero(s)
        ELSE F32Round(s, qr[1], a.e - b.e - 25, FALSE, qr[2] # 0)

\* a * b: the 48-bit product of the significands from their 12-bit halves
F32Mul(a, b) ==
    LET s   == (a.s + b.s) % 2
        ah  == a.m \div Pow2(12)
        al  == a.m % Pow2(12)
        bh  == b.m \div Pow2(12)
        bl  == b.m % Pow2(12)
        low == al * bl
        mid == ah * bl + al * bh + (low \div Pow2(12))
        hi  == ah * bh + (mid \div Pow2(12))
        lo  == (mid % Pow2(12)) * Pow2(12) + (low % Pow2(12))
    IN  IF a.m = 0 \/ b.m = 0 THEN F32Zero(s)
        ELSE F32Round(s, 4 * hi + (lo \div Pow2(22)), a.e + b.e + 22,
                      FALSE, (lo % Pow2(22)) # 0)

\* the value with its fraction cut off, |f| < 2^31
F32Trunc(f) ==
    LET mag == IF f.m = 0 THEN 0
               ELSE IF f.e >= 0 THEN f.m * Pow2(f.e)
               ELSE IF f.e <= -24 THEN 0
               ELSE f.m \div Pow2(0 - f.e)
    IN  IF f.s = 1 THEN 0 - mag ELSE mag

\* the low 16 bits of an int read as a short
Wrap16(n) == ((n + 32768) % 65536) - 32768

\* the least and the greatest short
SHRT_MIN == -32768
SHRT_MAX == 32767

InShort(n) == SHRT_MIN <= n /\ n <= SHRT_MAX

\* the conversion of a float to short: the truncated value when a short
\* can hold it.  Otherwise the behaviour is undefined; builds either keep
\* the low 16 bits of the int conversion or saturate.
FloatToShort(f) ==
    LET t == F32Trunc(f)
    IN  IF InShort(t) THEN {t}
        ELSE {Wrap16(t), IF t < 0 THEN SHRT_MIN ELSE SHRT_MAX}

\* the gain taken as a whole number of hundreds: volume / 100 on ints
ScaleIntGain(x, volume) ==
    F32Mul(F32Mul(F32Div(x, F32FromInt(10)), F32FromInt(SHRT_MAX)),
           F32FromInt(volume \div 100))

\* inbuf[i] /= 10; inbuf[i] *= 32767; inbuf[i] *= (volume / 100)
Scale(x, volume) ==
    F32Mul(F32Mul(F32Div(x, F32FromInt(10)), F32FromInt(SHRT_MAX)),
           F32Div(F32FromInt(volume), F32FromInt(100)))

\* a slot of dev_out: set once postprocess has stored v, indeterminate before
Slot(v) == [set |-> TRUE, v |-> v]
Indeterminate == [set |-> FALSE, v |-> 0]

\* ------------------------------------------------------------------ state
VARIABLES
    pc,               \* position of the main path
    rds,              \* main: int rds
    control_pipe,     \* main/generate_mpx: char *control_pipe (NULL or set)
    ctlGiven,         \* a --ctl option was on the command line
    alternative_freq, \* main: int alternative_freq[100]
    af_size,          \* main: int af_size
    afIn,             \* the --af arguments parsed so far, in tenths of MHz
    rdsAf,            \* the list handed to set_rds_af, <<>> when not called
    device,           \* global ao_device *device
    g_src_state,      \* global SRC_STATE *src_state
    l_src_state,      \* generate_mpx: local SRC_STATE *src_state
    res,              \* each resource: "none", "held" or "released"
    acqLog,           \* resources in the order they were acquired
    relLog,           \* the release calls made, in order
    stack,            \* activations of terminate(), innermost last
    errcode,          \* main: int errcode, the result of generate_mpx
    exitCode,         \* the argument of exit(), -1 while running
    startFail,        \* the startup acquisition that failed
    ctlFailed,        \* open_control_pipe was called and failed
    loopFail,         \* the streaming-fatal condition that ended the loop
    iter,             \* loop iterations begun (saturates at MaxIter)
    polls,            \* poll_control_pipe calls (saturates at MaxIter)
    writes,           \* successful ao_play calls (saturates at MaxIter)
    src_data,         \* generate_mpx: SRC_DATA src_data, the fields it sets
    generated_frames, \* generate_mpx: size_t generated_frames
    iterSteps,        \* the steps done so far in the current loop iteration
    rds_ps,           \* the station text of the RDS configuration, by halves
    blockPs,          \* the station text the last requested block carries
    mpx,              \* main: float mpx, the gain in percent
    resample_out,     \* float resample_out[], the samples tracked
    dev_out,          \* short dev_out[], the slots tracked
    fmtIn             \* resample_out as it was when postprocess was called

vars == <<pc, rds, control_pipe, ctlGiven, alternative_freq, af_size, afIn,
          rdsAf, device, g_src_state, l_src_state, res, acqLog, relLog, stack,
          errcode, exitCode, startFail, ctlFailed, loopFail, iter, polls,
          writes, src_data, generated_frames, iterSteps, rds_ps, blockPs,
          mpx, resample_out, dev_out>>

mainVars == <<rds, control_pipe, ctlGiven, alternative_freq, af_size, afIn>>
resVars  == <<device, g_src_state, l_src_state, res, acqLog, relLog>>
loopVars == <<iter, polls, writes, loopFail, ctlFailed>>
convVars == <<src_data, generated_frames>>
cfgVars  == <<rds_ps, blockPs>>
bufVars  == <<mpx, resample_out, dev_out, fmtIn>>
dataVars == <<convVars, iterSteps, cfgVars, bufVars>>

Sat(n) == IF n < MaxIter THEN n + 1 ELSE n

\* the locals of main() and the zero-initialised globals
Init ==
    /\ pc = "parse"
    /\ rds = 1
    /\ control_pipe = NULL
    /\ ctlGiven = FALSE
    /\ alternative_freq = [i \in 0..(AF_LEN - 1) |-> 0]
    /\ af_size = 0
    /\ afIn = <<>>
    /\ rdsAf = <<>>
    /\ device = NULL
    /\ g_src_state = NULL
    /\ l_src_state = NULL
    /\ res = [r \in Resources |-> "none"]
    /\ acqLog = <<>>
    /\ relLog = <<>>
    /\ stack = <<>>
    /\ errcode = 0
    /\ exitCode = -1
    /\ startFail = "none"
    /\ ctlFailed = FALSE
    /\ loopFail = "none"
    /\ iter = 0
    /\ polls = 0
    /\ writes = 0
    /\ src_data = [src_ratio |-> <<0, 1>>, output_frames |-> 0,
                   input_frames |-> 0, data_in |-> "none", data_out |-> "none"]
    /\ generated_frames = 0
    /\ iterSteps = <<>>
    /\ rds_ps = <<>>
    /\ blockPs = <<>>
    /\ mpx = MPX_DEFAULT
    /\ resample_out = <<>>
    /\ dev_out = <<>>
    /\ fmtIn = <<>>

\* ---------------------------------------------------------- main: options
\* case 'R': rds = atoi(optarg)
ParseRds(v) ==
    /\ pc = "parse"
    /\ rds' = v
    /\ UNCHANGED <<pc, control_pipe, ctlGiven, alternative_freq, af_size,
                   afIn, rdsAf, resVars, stack, errcode, exitCode, startFail,
                   loopVars>>
    /\ UNCHANGED dataVars

\* case 'C': control_pipe = optarg
ParseCtl ==
    /\ pc = "parse"
    /\ control_pipe' = HANDLE
    /\ ctlGiven' = TRUE
    /\ UNCHANGED <<pc, rds, alternative_freq, af_size, afIn, rdsAf, resVars,
                   stack, errcode, exitCode, startFail, loopVars>>
    /\ UNCHANGED dataVars

\* case 'A' with at most max options on the command line: af_size++;
\* alternative_freq[af_size] = ...; if out of range fatal().  A store past
\* the last element is undefined: it goes outside the array, and the run
\* either goes on with the value kept for the range test or is aborted.
ParseAfUpTo(t, max) ==
    /\ pc = "parse"
    /\ af_size < max
    /\ af_size' = af_size + 1
    /\ afIn' = Append(afIn, t)
    /\ IF af_size + 1 < AF_LEN
       THEN /\ alternative_freq' =
                   [alternative_freq EXCEPT ![af_size + 1] = AfCode(t)]
            /\ IF AfOutOfRange(AfCode(t))
               THEN pc' = "exited" /\ exitCode' = FATAL_CODE
               ELSE UNCHANGED <<pc, exitCode>>
       ELSE /\ UNCHANGED alternative_freq
            /\ \/ IF AfOutOfRange(AfCode(t))
                  THEN pc' = "exited" /\ exitCode' = FATAL_CODE
                  ELSE UNCHANGED <<pc, exitCode>>
               \/ pc' = "crashed" /\ UNCHANGED exitCode
    /\ UNCHANGED <<rds, control_pipe, ctlGiven, rdsAf, resVars, stack,
                   errcode, startFail, loopVars>>
    /\ UNCHANGED dataVars

\* case 'A' on the command lines of the main specification
ParseAf(t) == ParseAfUpTo(t, MaxAf)

\* getopt_long returned -1: alternative_freq[0] = af_size; generate_mpx(...)
EndParse ==
    /\ pc = "parse"
    /\ alternative_freq' = [alternative_freq EXCEPT ![0] = af_size]
    /\ pc' = "install"
    /\ UNCHANGED <<rds, control_pipe, ctlGiven, af_size, afIn, rdsAf, resVars,
                   stack, errcode, exitCode, startFail, loopVars>>
    /\ UNCHANGED dataVars

\* ------------------------------------------------- generate_mpx: startup
\* return <code> from generate_mpx: main stores it in errcode
Return(code) == pc' = "returned" /\ errcode' = code

Acquire(r) ==
    /\ res' = [res EXCEPT ![r] = "held"]
    /\ acqLog' = Append(acqLog, r)

\* the sigaction loop: terminate becomes the handler of HandledSignals
InstallHandlers ==
    /\ pc = "install"
    /\ stack = <<>>
    /\ pc' = "ao_open"
    /\ UNCHANGED <<mainVars, rdsAf, resVars, stack, errcode, exitCode,
                   startFail, loopVars>>
    /\ UNCHANGED dataVars

\* ao_initialize ... device = ao_open_live(...); NULL is "return 1"
AoOpen ==
    /\ pc = "ao_open"
    /\ stack = <<>>
    /\ \/ /\ device' = HANDLE
          /\ Acquire("sink")
          /\ pc' = "src_new"
          /\ UNCHANGED <<errcode, startFail>>
       \/ /\ device' = NULL
          /\ startFail' = "sink"
          /\ Return(1)
          /\ UNCHANGED <<res, acqLog>>
    /\ UNCHANGED <<mainVars, rdsAf, g_src_state, l_src_state, relLog, stack,
                   exitCode, loopVars>>
    /\ UNCHANGED dataVars

\* SRC_STATE *src_state; src_state = src_new(...): the declaration at line
\* 105 is local, so the global of line 31 is not assigned
SrcNew ==
    /\ pc = "src_new"
    /\ stack = <<>>
    /\ \/ /\ l_src_state' = HANDLE
          /\ Acquire("conv")
          /\ pc' = "fm_mpx_open"
          /\ UNCHANGED <<errcode, startFail>>
       \/ /\ l_src_state' = NULL
          /\ startFail' = "conv"
          /\ Return(1)
          /\ UNCHANGED <<res, acqLog>>
    /\ UNCHANGED <<mainVars, rdsAf, device, g_src_state, relLog, stack,
                   exitCode, loopVars>>
    /\ UNCHANGED dataVars

\* src_data.src_ratio = ...; src_data.output_frames = OUTPUT_DATA_SIZE;
\* if(fm_mpx_open(...) < 0) return 1
FmMpxOpen ==
    /\ pc = "fm_mpx_open"
    /\ stack = <<>>
    /\ src_data' = [src_data EXCEPT !.src_ratio = <<SINK_RATE, SOURCE_RATE>>,
                                    !.output_frames = OUTPUT_DATA_SIZE]
    /\ \/ /\ Acquire("source")
          /\ pc' = "rds_init"
          /\ UNCHANGED <<errcode, startFail>>
       \/ /\ startFail' = "source"
          /\ Return(1)
          /\ UNCHANGED <<res, acqLog>>
    /\ UNCHANGED <<mainVars, rdsAf, device, g_src_state, l_src_state, relLog,
                   stack, exitCode, loopVars>>
    /\ UNCHANGED <<generated_frames, iterSteps, cfgVars, bufVars>>

\* the entries af_array[1 .. af_array[0]]
AfList(arr) == [i \in 1..arr[0] |-> arr[i]]

\* set_rds_pi ... ; if(rds) { if(af_array[0]) set_rds_af(af_array); }
RdsInit ==
    /\ pc = "rds_init"
    /\ stack = <<>>
    /\ rdsAf' = IF rds # 0 /\ alternative_freq[0] # 0
                THEN AfList(alternative_freq) ELSE <<>>
    /\ rds_ps' = PsStart
    /\ pc' = "ctl_open"
    /\ UNCHANGED <<mainVars, resVars, stack, errcode, exitCode, startFail,
                   loopVars>>
    /\ UNCHANGED <<convVars, iterSteps, blockPs, bufVars>>

\* the control channel opened without the test of control_pipe
CtlOpenUnguarded ==
    /\ pc = "ctl_open"
    /\ stack = <<>>
    /\ \/ Acquire("ctl") /\ UNCHANGED <<control_pipe, ctlFailed>>
       \/ /\ control_pipe' = NULL
          /\ ctlFailed' = TRUE
          /\ UNCHANGED <<res, acqLog>>
    /\ pc' = "loop"
    /\ UNCHANGED <<rds, ctlGiven, alternative_freq, af_size, afIn, rdsAf,
                   device, g_src_state, l_src_state, relLog, stack, errcode,
                   exitCode, startFail, iter, polls, writes, loopFail>>
    /\ UNCHANGED dataVars

\* the failure branch without "control_pipe = NULL"
CtlOpenKeepsPath ==
    /\ pc = "ctl_open"
    /\ stack = <<>>
    /\ IF control_pipe # NULL
       THEN \/ Acquire("ctl") /\ UNCHANGED <<control_pipe, ctlFailed>>
            \/ /\ ctlFailed' = TRUE
               /\ UNCHANGED <<control_pipe, res, acqLog>>
       ELSE UNCHANGED <<control_pipe, ctlFailed, res, acqLog>>
    /\ pc' = "loop"
    /\ UNCHANGED <<rds, ctlGiven, alternative_freq, af_size, afIn, rdsAf,
                   device, g_src_state, l_src_state, relLog, stack, errcode,
                   exitCode, startFail, iter, polls, writes, loopFail>>
    /\ UNCHANGED dataVars

\* if(control_pipe) { if(open_control_pipe(...) == 0) ... else control_pipe = NULL; }
CtlOpen ==
    /\ pc = "ctl_open"
    /\ stack = <<>>
    /\ IF control_pipe # NULL
       THEN \/ Acquire("ctl") /\ UNCHANGED <<control_pipe, ctlFailed>>
            \/ /\ control_pipe' = NULL
               /\ ctlFailed' = TRUE
               /\ UNCHANGED <<res, acqLog>>
       ELSE UNCHANGED <<control_pipe, ctlFailed, res, acqLog>>
    /\ pc' = "loop"
    /\ UNCHANGED <<rds, ctlGiven, alternative_freq, af_size, afIn, rdsAf,
                   device, g_src_state, l_src_state, relLog, stack, errcode,
                   exitCode, startFail, iter, polls, writes, loopFail>>
    /\ UNCHANGED dataVars

\* ---------------------------------------------------- generate_mpx: loop
\* for (;;) { if(control_pipe) poll_control_pipe();
LoopPoll ==
    /\ pc = "loop"
    /\ stack = <<>>
    /\ iter' = Sat(iter)
    /\ polls' = IF control_pipe # NULL THEN Sat(polls) ELSE polls
    /\ iterSteps' = IF control_pipe # NULL THEN <<"poll">> ELSE <<>>
    /\ pc' = IF control_pipe # NULL THEN "in_poll" ELSE "get_samples"
    /\ UNCHANGED <<mainVars, rdsAf, resVars, stack, errcode, exitCode,
                   startFail, ctlFailed, writes, loopFail>>
    /\ UNCHANGED <<convVars, cfgVars, bufVars>>

\* poll_control_pipe finds a command that sets the station text and starts
\* to store the new text
PollApply ==
    /\ pc = "in_poll"
    /\ stack = <<>>
    /\ rds_ps = PsStart
    /\ rds_ps' = <<PsNew[1], rds_ps[2]>>
    /\ pc' = "in_set_ps"
    /\ UNCHANGED <<mainVars, rdsAf, resVars, stack, errcode, exitCode,
                   startFail, loopVars>>
    /\ UNCHANGED <<convVars, iterSteps, blockPs, bufVars>>

\* the rest of the new text is stored
PollApplyEnd ==
    /\ pc = "in_set_ps"
    /\ stack = <<>>
    /\ rds_ps' = PsNew
    /\ pc' = "in_poll"
    /\ UNCHANGED <<mainVars, rdsAf, resVars, stack, errcode, exitCode,
                   startFail, loopVars>>
    /\ UNCHANGED <<convVars, iterSteps, blockPs, bufVars>>

\* the loop goes on to the source from anywhere inside the poll
PollReturnEarly ==
    /\ pc \in {"in_poll", "in_set_ps"}
    /\ stack = <<>>
    /\ pc' = "get_samples"
    /\ UNCHANGED <<mainVars, rdsAf, resVars, stack, errcode, exitCode,
                   startFail, loopVars>>
    /\ UNCHANGED dataVars

\* poll_control_pipe() returns, with no command half applied
PollReturn ==
    /\ pc = "in_poll"
    /\ stack = <<>>
    /\ pc' = "get_samples"
    /\ UNCHANGED <<mainVars, rdsAf, resVars, stack, errcode, exitCode,
                   startFail, loopVars>>
    /\ UNCHANGED dataVars

\* the loop starts over after a failure
BreakRetry(why) == loopFail' = why /\ pc' = "loop" /\ UNCHANGED errcode

\* break leaves the loop to "return 0"
Break(why) == loopFail' = why /\ Return(0)

\* if (fm_mpx_get_samples(...) < 0) break;
GetSamples ==
    /\ pc = "get_samples"
    /\ stack = <<>>
    /\ iterSteps' = Append(iterSteps, "get")
    /\ \/ /\ pc' = "src_process"
          /\ blockPs' = rds_ps
          /\ UNCHANGED <<errcode, loopFail>>
       \/ Break("source") /\ UNCHANGED blockPs
    /\ UNCHANGED <<mainVars, rdsAf, resVars, stack, exitCode, startFail,
                   ctlFailed, iter, polls, writes>>
    /\ UNCHANGED <<convVars, rds_ps, bufVars>>

\* src_data.input_frames = DATA_SIZE; src_data.data_in = mpx_data;
\* src_data.data_out = resample_out; and src_process is entered
SrcProcessCall ==
    /\ pc = "src_process"
    /\ stack = <<>>
    /\ src_data' = [src_data EXCEPT !.input_frames = DATA_SIZE,
                                    !.data_in = "mpx_data",
                                    !.data_out = "resample_out"]
    /\ iterSteps' = Append(iterSteps, "convert")
    /\ pc' = "in_src_process"
    /\ UNCHANGED <<mainVars, rdsAf, resVars, stack, errcode, exitCode,
                   startFail, loopVars>>
    /\ UNCHANGED <<generated_frames, cfgVars, bufVars>>

\* the ratio taken upside down: source rate over sink rate
ConvFramesMaxInverse(sd) ==
    LET byRatio == (sd.input_frames * sd.src_ratio[2] + sd.src_ratio[1] - 1)
                       \div sd.src_ratio[1]
    IN  IF byRatio < sd.output_frames THEN byRatio ELSE sd.output_frames

\* the most frames one src_process call emits: input_frames * src_ratio
\* rounded up, and never more than output_frames
ConvFramesMax(sd) ==
    LET byRatio == (sd.input_frames * sd.src_ratio[1] + sd.src_ratio[2] - 1)
                       \div sd.src_ratio[2]
    IN  IF byRatio < sd.output_frames THEN byRatio ELSE sd.output_frames

\* the values of output_frames_gen tried: none (the filter is still
\* filling) and the most
ConvFrames(sd) == {0, ConvFramesMax(sd)}

\* src_process returns: if ((src_error = src_process(src_state, &src_data)))
\* { ...; break; } generated_frames = src_data.output_frames_gen;
SrcProcess ==
    /\ pc = "in_src_process"
    /\ stack = <<>>
    /\ \/ /\ \E n \in ConvFrames(src_data) : generated_frames' = n
          /\ pc' = "postprocess"
          /\ UNCHANGED <<errcode, loopFail>>
       \/ Break("convert") /\ UNCHANGED generated_frames
    /\ UNCHANGED <<mainVars, rdsAf, resVars, stack, exitCode, startFail,
                   ctlFailed, iter, polls, writes>>
    /\ UNCHANGED <<src_data, iterSteps, cfgVars, bufVars>>

\* the frames of the block among the samples tracked
Frames ==
    IF generated_frames < Len(resample_out) THEN generated_frames
    ELSE Len(resample_out)

\* the loop of postprocess advancing j by one slot for each sample
RECURSIVE PostLoopPacked(_, _, _, _, _, _)
PostLoopPacked(inbuf, outbuf, i, j, inbufsize, volume) ==
    IF i >= inbufsize THEN {<<inbuf, outbuf>>}
    ELSE LET x == Scale(inbuf[i + 1], volume)
         IN  UNION { PostLoopPacked([inbuf EXCEPT ![i + 1] = x],
                                    [outbuf EXCEPT ![j + 1] = Slot(v),
                                                   ![j + 2] = Slot(v)],
                                    i + 1, j + 1, inbufsize, volume)
                     : v \in FloatToShort(x) }

\* the loop of postprocess from index i on: the buffers it can leave behind
RECURSIVE PostLoop(_, _, _, _, _, _)
PostLoop(inbuf, outbuf, i, j, inbufsize, volume) ==
    IF i >= inbufsize THEN {<<inbuf, outbuf>>}
    ELSE LET x == Scale(inbuf[i + 1], volume)
         IN  UNION { PostLoop([inbuf EXCEPT ![i + 1] = x],
                              [outbuf EXCEPT ![j + 1] = Slot(v),
                                             ![j + 2] = Slot(v)],
                              i + 1, j + 2, inbufsize, volume)
                     : v \in FloatToShort(x) }

\* postprocess(resample_out, dev_out, generated_frames, mpx)
Postprocess ==
    /\ pc = "postprocess"
    /\ stack = <<>>
    /\ \E r \in PostLoop(resample_out, dev_out, 0, 0, Frames, mpx) :
           /\ resample_out' = r[1]
           /\ dev_out' = r[2]
    /\ fmtIn' = resample_out
    /\ iterSteps' = Append(iterSteps, "format")
    /\ pc' = "ao_play"
    /\ UNCHANGED <<mainVars, rdsAf, resVars, stack, errcode, exitCode,
                   startFail, loopVars>>
    /\ UNCHANGED <<convVars, cfgVars, mpx>>

\* ao_play(device, (char *)dev_out, generated_frames * 4) is entered
AoPlayCall ==
    /\ pc = "ao_play"
    /\ stack = <<>>
    /\ iterSteps' = Append(iterSteps, "write")
    /\ pc' = "in_ao_play"
    /\ UNCHANGED <<mainVars, rdsAf, resVars, stack, errcode, exitCode,
                   startFail, loopVars>>
    /\ UNCHANGED <<convVars, cfgVars, bufVars>>

\* ao_play returns and the loop goes on whatever the result
AoPlayContinue ==
    /\ pc = "in_ao_play"
    /\ stack = <<>>
    /\ \/ writes' = Sat(writes)
       \/ UNCHANGED writes
    /\ pc' = "loop"
    /\ UNCHANGED <<mainVars, rdsAf, resVars, stack, errcode, exitCode,
                   startFail, ctlFailed, iter, polls, loopFail>>
    /\ UNCHANGED dataVars

\* ao_play returns: if (!ao_play(device, ...)) { ...; break; }
AoPlay ==
    /\ pc = "in_ao_play"
    /\ stack = <<>>
    /\ \/ /\ writes' = Sat(writes)
          /\ pc' = "loop"
          /\ UNCHANGED <<errcode, loopFail>>
       \/ Break("write") /\ UNCHANGED writes
    /\ UNCHANGED <<mainVars, rdsAf, resVars, stack, exitCode, startFail,
                   ctlFailed, iter, polls>>
    /\ UNCHANGED dataVars

\* --------------------------------------------------------------- terminate
\* the sink closed before the source and the control channel
TerminateOpSinkFirst(step) ==
    CASE step = 1 -> "sink"
      [] step = 2 -> "source"
      [] step = 3 -> "ctl"
      [] step = 4 -> "conv"

\* terminate() makes four release calls and then exits; an activation is at
\* step k when its k-th call is the next thing it does
TerminateOp(step) ==
    CASE step = 1 -> "source"    \* fm_mpx_close()
      [] step = 2 -> "ctl"       \* close_control_pipe()
      [] step = 3 -> "sink"      \* ao_close(device); ao_shutdown()
      [] step = 4 -> "conv"      \* src_delete(src_state)

LastStep == 4

\* the handle a release call is given: fm_mpx_close and close_control_pipe
\* take none and act on their module's state; ao_close gets the global
\* device; src_delete gets the global src_state of line 31
TerminateArg(r) ==
    CASE r = "source" -> HANDLE
      [] r = "ctl"    -> HANDLE
      [] r = "sink"   -> device
      [] r = "conv"   -> g_src_state

Top == stack[Len(stack)]

Running == pc \notin {"parse", "install", "exited", "crashed"}

\* main: terminate(errcode)
CallTerminate ==
    /\ pc = "returned"
    /\ stack = <<>>
    /\ stack' = <<[num |-> errcode, sig |-> 0, step |-> 1]>>
    /\ pc' = "terminate"
    /\ UNCHANGED <<mainVars, rdsAf, resVars, errcode, exitCode, startFail,
                   loopVars>>
    /\ UNCHANGED dataVars

\* a handled signal arrives: terminate(s) starts on top of whatever was
\* running.  sa_mask is empty and sa_flags is 0, so only the signals whose
\* handler is already running are blocked.  Before the sigaction loop has
\* run a signal has its default disposition; that is not modelled.
Signal(s) ==
    /\ Running
    /\ \A i \in 1..Len(stack) : stack[i].sig # s
    /\ stack' = Append(stack, [num |-> s, sig |-> s, step |-> 1])
    /\ UNCHANGED <<pc, mainVars, rdsAf, resVars, errcode, exitCode, startFail,
                   loopVars>>
    /\ UNCHANGED dataVars

\* one release call of the innermost activation.  What the call meets is
\* logged: the handle it was given (ao_close and src_delete return at once
\* on NULL), the state of the resource at the call, and the activation.
ReleaseCall(r) ==
    /\ relLog' = Append(relLog,
                        [op    |-> r,
                         arg   |-> TerminateArg(r),
                         st    |-> res[r],
                         depth |-> Len(stack)])
    /\ res' = IF TerminateArg(r) # NULL /\ res[r] = "held"
              THEN [res EXCEPT ![r] = "released"] ELSE res

\* the first three calls of terminate(); ao_close on a device that was
\* already closed frees it a second time, which either goes unnoticed or
\* aborts the process
TerminateStep ==
    /\ Running
    /\ stack # <<>>
    /\ Top.step < LastStep
    /\ ReleaseCall(TerminateOp(Top.step))
    /\ \/ /\ stack' = [stack EXCEPT ![Len(stack)].step = Top.step + 1]
          /\ UNCHANGED pc
       \/ /\ TerminateOp(Top.step) = "sink"
          /\ device # NULL
          /\ res["sink"] = "released"
          /\ pc' = "crashed"
          /\ UNCHANGED stack
    /\ UNCHANGED <<mainVars, rdsAf, device, g_src_state, l_src_state, acqLog,
                   errcode, exitCode, startFail, loopVars>>
    /\ UNCHANGED dataVars

\* src_delete(src_state); printf(...); exit(num)
TerminateExit ==
    /\ Running
    /\ stack # <<>>
    /\ Top.step = LastStep
    /\ ReleaseCall(TerminateOp(Top.step))
    /\ stack' = [stack EXCEPT ![Len(stack)].step = LastStep + 1]
    /\ pc' = "exited"
    /\ exitCode' = Top.num
    /\ UNCHANGED <<mainVars, rdsAf, device, g_src_state, l_src_state, acqLog,
                   errcode, startFail, loopVars>>
    /\ UNCHANGED dataVars

Next ==
    \/ \E v \in 0..1 : ParseRds(v)
    \/ ParseCtl
    \/ \E t \in AfInputs : ParseAf(t)
    \/ EndParse
    \/ InstallHandlers
    \/ AoOpen
    \/ SrcNew
    \/ FmMpxOpen
    \/ RdsInit
    \/ CtlOpen
    \/ LoopPoll
    \/ PollApply
    \/ PollApplyEnd
    \/ PollReturn
    \/ GetSamples
    \/ SrcProcessCall
    \/ SrcProcess
    \/ Postprocess
    \/ AoPlayCall
    \/ AoPlay
    \/ CallTerminate
    \/ \E s \in SigInputs : Signal(s)
    \/ TerminateStep
    \/ TerminateExit

Spec == Init /\ [][Next]_vars

\* ------------------------------------------------- postprocess on samples
\* a converted sample of n tenths: the float nearest to n/10
Sample(n) == F32Div(F32FromInt(n), F32FromInt(10))
SampleInputs == {Sample(n) : n \in SampleTenths}

\* The first call of postprocess in a run without --ctl: the startup is
\* done, and the converter has left any samples in resample_out and any
\* count of them in generated_frames.  dev_out is not initialised.
InitFmt ==
    /\ pc = "postprocess"
    /\ rds = 1
    /\ control_pipe = NULL
    /\ ctlGiven = FALSE
    /\ alternative_freq = [i \in 0..(AF_LEN - 1) |-> 0]
    /\ af_size = 0
    /\ afIn = <<>>
    /\ rdsAf = <<>>
    /\ device = HANDLE
    /\ g_src_state = NULL
    /\ l_src_state = HANDLE
    /\ res = [r \in Resources |-> IF r = "ctl" THEN "none" ELSE "held"]
    /\ acqLog = <<"sink", "conv", "source">>
    /\ relLog = <<>>
    /\ stack = <<>>
    /\ errcode = 0
    /\ exitCode = -1
    /\ startFail = "none"
    /\ ctlFailed = FALSE
    /\ loopFail = "none"
    /\ iter = 1
    /\ polls = 0
    /\ writes = 0
    /\ src_data = [src_ratio |-> <<SINK_RATE, SOURCE_RATE>>,
                   output_frames |-> OUTPUT_DATA_SIZE,
                   input_frames |-> DATA_SIZE,
                   data_in |-> "mpx_data", data_out |-> "resample_out"]
    /\ generated_frames \in 0..MaxFrames
    /\ iterSteps = <<"get", "convert">>
    /\ rds_ps = PsStart
    /\ blockPs = PsStart
    /\ mpx \in GainInputs
    /\ resample_out \in [1..MaxFrames -> SampleInputs]
    /\ dev_out = [k \in 1..(2 * MaxFrames + 2) |-> Indeterminate]
    /\ fmtIn = <<>>

NextFmt == Postprocess

SpecFmt == InitFmt /\ [][NextFmt]_vars

\* ------------------------------------------------ long command lines
\* option parsing alone, with up to MaxAfLong --af options
NextAf ==
    \/ \E t \in AfLongInputs : ParseAfUpTo(t, MaxAfLong)
    \/ EndParse

SpecAf == Init /\ [][NextAf]_vars

\* ------------------------------------------------------------ vocabulary
\* no signal was delivered: every activation of terminate is main's call
NoSignal == \A i \in 1..Len(stack) : stack[i].sig = 0

\* the release calls that were given something to release
Targeted(e) == e.arg # NULL

\* the release calls that released a held resource, in order
Released == SelectSeq(relLog, LAMBDA e : Targeted(e) /\ e.st = "held")
ReleasedOps == [i \in 1..Len(Released) |-> Released[i].op]

Acquired == {acqLog[i] : i \in 1..Len(acqLog)}
AcqPos(r) == CHOOSE i \in 1..Len(acqLog) : acqLog[i] = r
RelPos(r) == CHOOSE i \in 1..Len(ReleasedOps) : ReleasedOps[i] = r
WasReleased(r) == \E i \in 1..Len(ReleasedOps) : ReleasedOps[i] = r

\* the release calls made by the activation at depth d, in order
CallsAt(d) ==
    LET mine == SelectSeq(relLog, LAMBDA e : e.depth = d)
    IN  [i \in 1..Len(mine) |-> mine[i].op]

IsPrefix(a, b) == Len(a) <= Len(b) /\ \A i \in 1..Len(a) : a[i] = b[i]

\* exit() was called by fatal(), not by terminate()
AfFatal == pc = "exited" /\ stack = <<>>

\* the main path is inside the run loop
InLoop == pc \in {"loop", "in_poll", "in_set_ps", "get_samples",
                  "src_process", "in_src_process", "postprocess", "ao_play",
                  "in_ao_play"}

\* the main path is inside a conversion or a sink write
InFlight == pc \in {"in_src_process", "in_ao_play"}

\* ----------------------------------------------------------------- claims
\* C1: under overlapping termination requests each of the four resources is
\* released at most once: no release call is applied to a resource that an
\* earlier call already released.
C1_ReleasedAtMostOnce ==
    \A i \in 1..Len(relLog) :
        Targeted(relLog[i]) => relLog[i].st # "released"

\* C2: after a failed startup acquisition (and no signal) the process exits
\* without a release call on a resource that had not been acquired.
C2_StartFailReleasesNothingUnacquired ==
    (startFail # "none" /\ NoSignal) =>
        \A i \in 1..Len(relLog) :
            Targeted(relLog[i]) => relLog[i].st # "none"

\* C3: whenever terminate runs, every release call it makes is applied to
\* a resource that is held at that moment (acquired and not yet released).
C3_ReleaseOnlyHeld ==
    \A i \in 1..Len(relLog) :
        Targeted(relLog[i]) => relLog[i].st = "held"

\* C4: a streaming-fatal condition in the loop (source error, conversion
\* failure, sink write failure) ends, after every acquired resource was
\* released, in an exit with a non-zero code.
C4_StreamingFatalExitsNonZero ==
    (pc = "exited" /\ loopFail # "none" /\ NoSignal) =>
        /\ exitCode # 0
        /\ \A r \in Acquired : res[r] = "released"

\* C5: on every exit after the converter was created, teardown has released
\* the converter handle that startup created.
C5_ConverterReleasedAtExit ==
    (pc = "exited" /\ l_src_state # NULL) => res["conv"] = "released"

\* C6: after a sink write failure with no signal, teardown has released the
\* source, the control channel (if it was open), the sink and the converter,
\* in that order, each exactly once, when the process exits.
C6_WriteFailureTeardown ==
    (pc = "exited" /\ loopFail = "write" /\ NoSignal) =>
        ReleasedOps = IF "ctl" \in Acquired
                      THEN <<"source", "ctl", "sink", "conv">>
                      ELSE <<"source", "sink", "conv">>

\* C7 as stated: the handles are destroyed in the reverse of the order of
\* their creation: of two released resources, the one released first was
\* created last.
C7_ReverseOfCreation ==
    \A a, b \in Resources :
        (WasReleased(a) /\ WasReleased(b) /\ RelPos(a) < RelPos(b))
            => AcqPos(a) > AcqPos(b)

\* C7 as amended: every run of terminate, whichever path started it, makes
\* its release calls in the one order source, control channel, sink,
\* converter, and has made all four when it exits.
C7_FixedTeardownOrder ==
    /\ \A d \in 1..Len(stack) :
           IsPrefix(CallsAt(d), <<"source", "ctl", "sink", "conv">>)
    /\ \A d \in (Len(stack) + 1)..(Len(relLog) + 1) : CallsAt(d) = <<>>
    /\ (pc = "exited" /\ stack # <<>>) =>
           CallsAt(Len(stack)) = <<"source", "ctl", "sink", "conv">>

\* a handler that interrupted startup ran terminate to its exit with the
\* control channel open
C7_Witness ==
    /\ pc = "exited"
    /\ Len(stack) = 2
    /\ stack[1].sig # 0
    /\ "ctl" \in Acquired
    /\ CallsAt(2) = <<"source", "ctl", "sink", "conv">>

\* C8 as stated: startup acquires the source, then the sink, then the
\* converter, then the control channel.
C8_SourceFirst ==
    IsPrefix(acqLog, <<"source", "sink", "conv", "ctl">>)

\* C8 as amended: startup acquires the sink, then the converter, then the
\* source, and last, only if a control path was given, the control channel.
C8_SinkFirst ==
    /\ IsPrefix(acqLog, <<"sink", "conv", "source", "ctl">>)
    /\ "ctl" \in Acquired => ctlGiven

C8_Witness == Len(acqLog) = 4 /\ pc = "loop"

\* C9: when the control channel was asked for and failed to open, the
\* channel is never polled, and as long as nothing fails and no signal
\* arrives the pipeline stays in the loop, whose first iteration can only
\* end by a successful sink write.
C9_CtlFailureNonFatal ==
    ctlFailed =>
        /\ polls = 0
        /\ (NoSignal /\ loopFail = "none") =>
              /\ InLoop
              /\ (pc = "loop" /\ iter >= 1) => writes >= 1

\* the first iteration after a failed open has written to the sink and the
\* second is under way
C9_Witness ==
    /\ ctlFailed
    /\ NoSignal
    /\ writes >= 1
    /\ iter >= 2
    /\ pc = "in_ao_play"

\* C10: an --af argument of t tenths of MHz is accepted iff 876 <= t <= 1079
\* and is then stored as t-875 (1..204); any other argument ends the process
\* with a non-zero code while parsing, with no sink opened, no iteration
\* begun and nothing handed to the RDS configuration; and every code handed
\* to the RDS configuration is in 1..204.
C10_AfValidation ==
    /\ (pc = "parse" /\ afIn = <<>>) =>
           \A t \in 1..MaxTenths :
               /\ ~AfOutOfRange(AfCode(t)) <=> (876 <= t /\ t <= 1079)
               /\ (876 <= t /\ t <= 1079) => AfCode(t) = t - 875
    /\ \A i \in 1..Len(afIn) :
           LET accepted == ~(AfFatal /\ i = Len(afIn))
           IN  /\ accepted <=> (876 <= afIn[i] /\ afIn[i] <= 1079)
               /\ accepted => /\ alternative_freq[i] = afIn[i] - 875
                              /\ alternative_freq[i] \in 1..204
    /\ AfFatal => /\ exitCode # 0
                  /\ acqLog = <<>>
                  /\ res["sink"] = "none"
                  /\ iter = 0
                  /\ rdsAf = <<>>
    /\ \A i \in 1..Len(rdsAf) : rdsAf[i] \in 1..204

\* "87.6" was accepted and "108.0" then ended the process
C10_Witness == AfFatal /\ afIn = <<876, 1080>>

\* C11: on every converter call the most frames the converter may emit
\* (output_frames) fit into the buffer data_out points to.
C11_OutputFramesFitBuffer ==
    pc = "in_src_process" =>
        src_data.output_frames <= BufLen(src_data.data_out)

\* C12: with the rates 228000 and 192000 and a block of 4096 samples, the
\* frames one converter call emits fit into the resample buffer and, two
\* samples per frame, into the device buffer.
C12_FramesFitBuffers ==
    pc \in {"postprocess", "ao_play", "in_ao_play"} =>
        /\ src_data.input_frames = 4096
        /\ src_data.src_ratio = <<192000, 228000>>
        /\ generated_frames <= BufLen("resample_out")
        /\ 2 * generated_frames <= BufLen("dev_out")

\* a call emitted the most frames the ratio allows
C12_Witness ==
    /\ pc = "postprocess"
    /\ generated_frames = ConvFramesMax(src_data)
    /\ generated_frames > 3000

\* C13: for n converted frames postprocess stores to exactly the slots
\* 0 .. 2n-1 of dev_out; slots 2i and 2i+1 hold the same value, the
\* conversion of sample i scaled by the gain; a sample of 0 gives 0 in both
\* slots whatever the gain.
C13_StereoMapping ==
    pc = "ao_play" =>
        /\ \A k \in 1..Len(dev_out) : dev_out[k].set <=> k <= 2 * Frames
        /\ \A i \in 0..(Frames - 1) :
              /\ dev_out[2 * i + 1] = dev_out[2 * i + 2]
              /\ dev_out[2 * i + 1].v \in FloatToShort(Scale(fmtIn[i + 1], mpx))
              /\ fmtIn[i + 1].m = 0 => dev_out[2 * i + 1].v = 0

\* a block of two frames, one sample zero and one not, with a gain that is
\* not zero, has been formatted
C13_Witness ==
    /\ pc = "ao_play"
    /\ Frames = 2
    /\ mpx # 0
    /\ fmtIn[1].m = 0
    /\ fmtIn[2].m # 0
    /\ dev_out[3].v # 0

\* C14: for a gain g >= 0 the value stored for a sample is its value at
\* gain 2g halved, up to the fraction the conversion to short cuts off,
\* whenever the value at gain 2g is within the range of a short.
C14_GainLinear ==
    pc = "ao_play" /\ mpx >= 0 =>
        \A i \in 0..(Frames - 1) :
            LET twice == F32Trunc(Scale(fmtIn[i + 1], 2 * mpx))
                once  == dev_out[2 * i + 1].v
            IN  InShort(twice) =>
                    /\ twice - 2 * once <= 1
                    /\ 2 * once - twice <= 1
                    /\ (once = 0) \/ (once > 0) = (twice > 0)

\* a sample formatted with a gain above zero whose value at twice the gain
\* is still a short and is odd, so that the cut-off fraction shows
C14_Witness ==
    /\ pc = "ao_play"
    /\ mpx > 0
    /\ Frames >= 1
    /\ dev_out[1].v # 0
    /\ InShort(F32Trunc(Scale(fmtIn[1], 2 * mpx)))
    /\ F32Trunc(Scale(fmtIn[1], 2 * mpx)) # 2 * dev_out[1].v

\* C15: a station text set by the poll is seen whole by the next block
\* request: when get-samples is about to be called the poll of that
\* iteration has stored the whole text, no block carries a text that is half
\* old and half new, and the block requested carries exactly the text the
\* configuration holds.
C15_UpdateSeenWhole ==
    /\ blockPs \in PsTexts \cup {<<>>}
    /\ pc = "get_samples" =>
          /\ rds_ps \in PsTexts
          /\ control_pipe # NULL => iterSteps = <<"poll">>
    /\ pc \in {"src_process", "in_src_process", "postprocess", "ao_play",
                "in_ao_play"} => blockPs = rds_ps

\* the poll has set the new text and the block requested next carries it
C15_Witness ==
    /\ pc = "src_process"
    /\ iterSteps = <<"poll", "get">>
    /\ blockPs = PsNew

\* C16: while a conversion or a sink write is in flight no teardown runs
\* and no resource has been released; a termination request that arrives
\* then waits for the step to finish.
C16_NoReleaseInFlight ==
    InFlight =>
        /\ \A r \in Resources : res[r] # "released"
        /\ \A i \in 1..Len(relLog) : ~Targeted(relLog[i])

\* the steps an iteration runs through, the poll only with an open channel
IterOrder == IF control_pipe # NULL THEN StepOrder ELSE Tail(StepOrder)

\* C17: the steps of an iteration are done in the order poll (only if the
\* control channel is open), get, convert, format, write; an iteration
\* starts only after the write of the one before returned successfully.
C17_StepOrder ==
    /\ IsPrefix(iterSteps, IterOrder)
    /\ iter <= writes + 1
    /\ (pc = "loop" /\ iter >= 1) => iterSteps = IterOrder
    /\ pc \in {"in_poll", "in_set_ps"} => iterSteps = <<"poll">>
    /\ pc = "src_process" => iterSteps[Len(iterSteps)] = "get"
    /\ pc = "in_src_process" => iterSteps[Len(iterSteps)] = "convert"
    /\ pc = "ao_play" => iterSteps[Len(iterSteps)] = "format"
    /\ pc = "in_ao_play" => iterSteps[Len(iterSteps)] = "write"

\* the second iteration, with a poll, has reached its write
C17_Witness ==
    /\ pc = "in_ao_play"
    /\ iter = 2
    /\ writes = 1
    /\ iterSteps = StepOrder

\* the step a streaming-fatal condition belongs to
FailedStep == [source |-> "get", convert |-> "convert", write |-> "write"]

\* C19: once a source read, a conversion or a sink write has failed the
\* loop is over: the failed step stays the last step done and the main
\* path is on its way through return and teardown.
C19_NoRetry ==
    loopFail # "none" =>
        /\ pc \in {"returned", "terminate", "exited", "crashed"}
        /\ iterSteps # <<>>
        /\ iterSteps[Len(iterSteps)] = FailedStep[loopFail]

\* a conversion failed and the process has exited
C19_Witness ==
    /\ loopFail = "convert"
    /\ pc = "exited"

\* a signal arrived while the main path was in the run loop, and its
\* handler is the outermost activation of terminate()
SignalInLoop ==
    /\ stack # <<>>
    /\ stack[1].sig # 0
    /\ iter >= 1
    /\ loopFail = "none"

\* C18: a termination request received in the run loop, whatever step was
\* executing, ends in the full teardown of the source, the control channel,
\* the sink and the converter, and then in an exit with the code of a
\* request, not with the code of the streaming-error path.
C18_SignalFullTeardown ==
    SignalInLoop =>
        /\ pc # "crashed"
        /\ pc = "exited" =>
              /\ \A r \in Acquired : res[r] = "released"
              /\ \E i \in 1..Len(stack) : exitCode = stack[i].sig
              /\ exitCode # 0

\* C20: whatever the number of --af options, the index an entry is stored
\* at is at most the last index of alternative_freq, and after parsing slot
\* 0 holds the number of accepted entries and slots 1 .. count hold them in
\* command-line order.
C20_AfWithinCapacity ==
    /\ af_size <= AF_LEN - 1
    /\ pc # "crashed"
    /\ pc = "install" =>
          /\ alternative_freq[0] = Len(afIn)
          /\ \A i \in 1..Len(afIn) : alternative_freq[i] = afIn[i] - AF_BASE

====
